---- MODULE Spec2Model ----
(***************************************************************************)
(* Gauge-file parsing (scripts/parse_gauge.py) and the value classifiers   *)
(* of scripts/plot_gauge.py as state machines.                             *)
(*                                                                         *)
(* Text is a sequence of one-character strings.  A float is an integer     *)
(* count of hundredths (file tokens) or thousandths (inches handed to      *)
(* assign_bins), or the value NaN / Inf; the literals and thresholds of    *)
(* the model are all exact at that scale.  A pandas Timestamp is its UTC   *)
(* instant in minutes since 1970-01-01T00:00Z.                             *)
(***************************************************************************)
EXTENDS Integers, Sequences, FiniteSets

VARIABLES
    pc,        \* position of the running call
    err,       \* the exception the call raised, or "none"
    fname,     \* argument fname
    lines,     \* the lines of the file, in order
    qc_keep,   \* argument qc_keep: [given |-> FALSE] is None, else the set flags
    base,      \* local base of parse_gauge_file_to_table1
    li,        \* number of lines the for loop has consumed
    recs,      \* local recs
    out,       \* the table returned (read only once pc = "returned")
    vals,      \* argument vals of assign_bins
    bins,      \* BinSpec thresholds, in thousandths of an inch
    colors,    \* BinSpec colors
    sizes,     \* BinSpec marker sizes
    inds,      \* assign_bins: the bin indices returned
    c,         \* assign_bins: the colors returned
    s,         \* assign_bins: the sizes returned
    series,    \* argument series of choose_color_limits
    vmin,      \* argument vmin, a float
    vmax,      \* argument vmax: [given |-> FALSE] is None, else the float v
    clamp_q,   \* argument clamp_q, in percent
    limits     \* the pair (vmin, vmax) choose_color_limits returned

vars == <<pc, err, fname, lines, qc_keep, base, li, recs, out,
          vals, bins, colors, sizes, inds, c, s,
          series, vmin, vmax, clamp_q, limits>>

parseVars == <<fname, lines, qc_keep, base, li, recs, out>>
binVars == <<vals, bins, colors, sizes, inds, c, s>>
limitVars == <<series, vmin, vmax, clamp_q, limits>>

\* pd.NA, the placeholder of the columns filled later
NA == "<NA>"

\* A float: a finite number n (scaled), NaN, or an infinity of sign sg
Num(n) == [k |-> "num", v |-> n]
NaN == [k |-> "nan", v |-> 0]
Inf(sg) == [k |-> "inf", v |-> sg]

\* a <= b and a < b on floats: every comparison with NaN is false
Le(a, b) ==
    CASE a.k = "nan" \/ b.k = "nan" -> FALSE
      [] a.k = "num" /\ b.k = "num" -> a.v <= b.v
      [] a.k = "inf" /\ b.k = "inf" -> a.v <= b.v
      [] a.k = "inf" -> a.v < 0
      [] OTHER -> b.v > 0

Lt(a, b) ==
    CASE a.k = "nan" \/ b.k = "nan" -> FALSE
      [] a.k = "num" /\ b.k = "num" -> a.v < b.v
      [] a.k = "inf" /\ b.k = "inf" -> a.v < b.v
      [] a.k = "inf" -> a.v < 0
      [] OTHER -> b.v > 0

----------------------------------------------------------------------------
(* Text helpers *)

Digits == {"0", "1", "2", "3", "4", "5", "6", "7", "8", "9"}

DigitVal(ch) ==
    CASE ch = "0" -> 0 [] ch = "1" -> 1 [] ch = "2" -> 2 [] ch = "3" -> 3
      [] ch = "4" -> 4 [] ch = "5" -> 5 [] ch = "6" -> 6 [] ch = "7" -> 7
      [] ch = "8" -> 8 [] ch = "9" -> 9

AllDigits(t) == \A k \in 1..Len(t) : t[k] \in Digits

RECURSIVE int_str(_)
\* int() of a string of decimal digits
int_str(t) ==
    IF t = <<>> THEN 0
    ELSE 10 * int_str(SubSeq(t, 1, Len(t) - 1)) + DigitVal(t[Len(t)])

StartsWith(t, p) == Len(t) >= Len(p) /\ SubSeq(t, 1, Len(p)) = p

\* k in s, for strings
Contains(t, k) ==
    \E j \in 1..(Len(t) - Len(k) + 1) : SubSeq(t, j, j + Len(k) - 1) = k

Whitespace == {" ", "\t", "\n", "\r"}

RECURSIVE strip(_)
strip(t) ==
    IF t = <<>> THEN t
    ELSE IF t[1] \in Whitespace THEN strip(Tail(t))
    ELSE IF t[Len(t)] \in Whitespace THEN strip(SubSeq(t, 1, Len(t) - 1))
    ELSE t

RECURSIVE SplitOn(_, _, _)
\* the maximal runs of t free of the separators seps, cur being the run
\* under construction; empty runs are dropped
SplitOn(t, seps, cur) ==
    IF t = <<>> THEN (IF cur = <<>> THEN <<>> ELSE <<cur>>)
    ELSE IF t[1] \in seps
         THEN (IF cur = <<>> THEN <<>> ELSE <<cur>>) \o SplitOn(Tail(t), seps, <<>>)
         ELSE SplitOn(Tail(t), seps, Append(cur, t[1]))

\* s.split()
split(t) == SplitOn(t, Whitespace, <<>>)

----------------------------------------------------------------------------
(* parse_gauge.py: infer_file_time_utc *)

\* Path(fname).name: the last path component, empty and "." components dropped
PathName(f) ==
    LET parts == SelectSeq(SplitOn(f, {"/"}, <<>>), LAMBDA p : p # <<".">>)
    IN  IF parts = <<>> THEN <<>> ELSE parts[Len(parts)]

\* r'\.(\d{8})\.(\d{2})0000' matched against the whole of the 16 characters t
PatternAt(t) ==
    /\ Len(t) = 16
    /\ t[1] = "."
    /\ AllDigits(SubSeq(t, 2, 9))
    /\ t[10] = "."
    /\ AllDigits(SubSeq(t, 11, 12))
    /\ SubSeq(t, 13, 16) = <<"0", "0", "0", "0">>

Last16(t) == SubSeq(t, Len(t) - 15, Len(t))

\* re.search(r'\.(\d{8})\.(\d{2})0000$', name): "$" matches at the end of the
\* string and also just before a newline that ends it.  The match, as the
\* 16 characters matched, or the empty string for None.
re_search(name) ==
    IF Len(name) >= 16 /\ PatternAt(Last16(name)) THEN Last16(name)
    ELSE IF /\ Len(name) >= 17
            /\ name[Len(name)] = "\n"
            /\ PatternAt(Last16(SubSeq(name, 1, Len(name) - 1)))
         THEN Last16(SubSeq(name, 1, Len(name) - 1))
    ELSE <<>>

IsLeap(y) == (y % 4 = 0) /\ ((y % 100 # 0) \/ (y % 400 = 0))

DaysInMonth(y, m) ==
    CASE m \in {1, 3, 5, 7, 8, 10, 12} -> 31
      [] m \in {4, 6, 9, 11} -> 30
      [] m = 2 -> IF IsLeap(y) THEN 29 ELSE 28

RECURSIVE DaysBeforeMonth(_, _)
DaysBeforeMonth(y, m) ==
    IF m = 1 THEN 0 ELSE DaysBeforeMonth(y, m - 1) + DaysInMonth(y, m - 1)

\* days from 1970-01-01 to y-m-d in the proleptic Gregorian calendar
EpochDays(y, m, d) ==
    LET p == y - 1
    IN  p * 365 + (p \div 4) - (p \div 100) + (p \div 400)
          + DaysBeforeMonth(y, m) + d - 719163

Ok(v) == [ok |-> TRUE, value |-> v]
Raise(e) == [ok |-> FALSE, exc |-> e]

\* pd.Timestamp(year, month, day, hour, minute, 0, tz='UTC'): the fields are
\* range-checked as datetime checks them
Timestamp(y, m, d, h, mi) ==
    IF /\ y \in 1..9999
       /\ m \in 1..12
       /\ d >= 1 /\ d <= DaysInMonth(y, m)
       /\ h \in 0..23
       /\ mi \in 0..59
    THEN Ok((EpochDays(y, m, d) * 24 + h) * 60 + mi)
    ELSE Raise("ValueError")

infer_file_time_utc(f) ==
    LET m == re_search(PathName(f))
    IN  IF m = <<>> THEN Raise("ValueError")
        ELSE Timestamp(int_str(SubSeq(m, 2, 5)), int_str(SubSeq(m, 6, 7)),
                       int_str(SubSeq(m, 8, 9)), int_str(SubSeq(m, 11, 12)), 0)

----------------------------------------------------------------------------
(* parse_gauge.py: line_is_data and the conversions of a data line *)

bad_keys ==
    { <<"G", "_", "I", "D">>, <<"L", "a", "t">>, <<"L", "o", "n">>,
      <<"T", "_", "S", "h", "i", "f", "t">>,
      <<"G", "_", "V", "a", "l", "u", "e">>,
      <<"Q", "C", "_", "F", "l", "a", "g">>,
      <<"G", "a", "u", "g", "e", " ", "s", "t", "a", "t", "i", "o", "n",
        " ", "I", "D">> }

line_is_data(t) ==
    IF t = <<>> \/ StartsWith(t, <<"#">>) THEN FALSE
    ELSE ~ \E k \in bad_keys : Contains(t, k)

\* the position of the first "." of t, or Len(t) + 1
DotAt(t) ==
    IF \E j \in 1..Len(t) : t[j] = "."
    THEN CHOOSE j \in 1..Len(t) : t[j] = "." /\ \A i \in 1..(j - 1) : t[i] # "."
    ELSE Len(t) + 1

\* float() of an unsigned literal "ddd", "ddd.dd", "ddd." or ".dd", in
\* hundredths (the literals of the model carry at most two decimals)
UnsignedFloat(t) ==
    LET d == DotAt(t)
        ip == SubSeq(t, 1, d - 1)
        fp == SubSeq(t, d + 1, Len(t))
        f2 == SubSeq(fp \o <<"0", "0">>, 1, 2)
    IN  IF /\ AllDigits(ip) /\ AllDigits(fp)
           /\ Len(ip) + Len(fp) >= 1
        THEN Ok(Num(100 * int_str(ip) + int_str(f2)))
        ELSE Raise("ValueError")

\* float(tok) for a token free of whitespace, "e", "E" and "_"
float(tok) ==
    LET neg == tok # <<>> /\ tok[1] = "-"
        signed == tok # <<>> /\ tok[1] \in {"-", "+"}
        body == IF signed THEN Tail(tok) ELSE tok
        u == UnsignedFloat(body)
    IN  IF body = <<"n", "a", "n">> THEN Ok(NaN)
        ELSE IF body = <<"i", "n", "f">> THEN Ok(Inf(IF neg THEN -1 ELSE 1))
        ELSE IF ~ u.ok THEN u
        ELSE IF neg THEN Ok(Num(-(u.value.v))) ELSE u

\* int(x) of a float: truncation toward zero; NaN and the infinities raise
int_float(x) ==
    CASE x.k = "nan" -> Raise("ValueError")
      [] x.k = "inf" -> Raise("OverflowError")
      [] x.v >= 0 -> Ok(x.v \div 100)
      [] OTHER -> Ok(-((-(x.v)) \div 100))

\* int(float(tok))
int_of_float(tok) ==
    LET x == float(tok) IN IF x.ok THEN int_float(x.value) ELSE x

\* lines 44-53: the record of the first six tokens, or the exception raised
\* while the dict is built (nothing is appended then)
MakeRecord(parts) ==
    LET lat == float(parts[2])
        lon == float(parts[3])
        tshift == int_of_float(parts[4])
        gval == float(parts[5])
        qc == int_of_float(parts[6])
    IN  IF ~ lat.ok THEN lat
        ELSE IF ~ lon.ok THEN lon
        ELSE IF ~ tshift.ok THEN tshift
        ELSE IF ~ gval.ok THEN gval
        ELSE IF ~ qc.ok THEN qc
        ELSE Ok([G_ID |-> parts[1], Lat |-> lat.value, Lon |-> lon.value,
                 T_Shift |-> tshift.value, G_Value |-> gval.value,
                 QC_Flag |-> qc.value])

----------------------------------------------------------------------------
(* The inputs the calls are given *)

\* 'G1 35.1 -97.5 30 2.5 0\n'
LineG1 ==
    <<"G", "1", " ", "3", "5", ".", "1", " ", "-", "9", "7", ".", "5", " ",
      "3", "0", " ", "2", ".", "5", " ", "0", "\n">>

\* 'G2 36 -98 90 0 1\n'
LineG2 ==
    <<"G", "2", " ", "3", "6", " ", "-", "9", "8", " ", "9", "0", " ", "0",
      " ", "1", "\n">>

\* '  G3 35 -97 -45.9 1.5 2 x7\n'
LineG3 ==
    <<" ", " ", "G", "3", " ", "3", "5", " ", "-", "9", "7", " ", "-", "4",
      "5", ".", "9", " ", "1", ".", "5", " ", "2", " ", "x", "7", "\n">>

\* 'G4 35 -97 30 2.5\n'
LineShort ==
    <<"G", "4", " ", "3", "5", " ", "-", "9", "7", " ", "3", "0", " ", "2",
      ".", "5", "\n">>

\* 'G5 abc -97 30 2.5 0\n'
LineBadLat ==
    <<"G", "5", " ", "a", "b", "c", " ", "-", "9", "7", " ", "3", "0", " ",
      "2", ".", "5", " ", "0", "\n">>

\* 'G6 35 -97 nan 2.5 0\n'
LineNanShift ==
    <<"G", "6", " ", "3", "5", " ", "-", "9", "7", " ", "n", "a", "n", " ",
      "2", ".", "5", " ", "0", "\n">>

\* 'G7 35 -97 30 2.5 x\n'
LineBadQc ==
    <<"G", "7", " ", "3", "5", " ", "-", "9", "7", " ", "3", "0", " ", "2",
      ".", "5", " ", "x", "\n">>

\* '# G8 35 -97 30 2.5 0\n'
LineComment ==
    <<"#", " ", "G", "8", " ", "3", "5", " ", "-", "9", "7", " ", "3", "0",
      " ", "2", ".", "5", " ", "0", "\n">>

\* 'G_ID Lat Lon T_Shift G_Value QC_Flag\n'
LineHeader ==
    <<"G", "_", "I", "D", " ", "L", "a", "t", " ", "L", "o", "n", " ", "T",
      "_", "S", "h", "i", "f", "t", " ", "G", "_", "V", "a", "l", "u", "e",
      " ", "Q", "C", "_", "F", "l", "a", "g", "\n">>

\* '\n'
LineBlank ==
    <<"\n">>

\* '/d/GAUGE.20250831.230000'
NameAug31 ==
    <<"/", "d", "/", "G", "A", "U", "G", "E", ".", "2", "0", "2", "5", "0",
      "8", "3", "1", ".", "2", "3", "0", "0", "0", "0">>

\* 'G.20240229.000000'
NameLeap ==
    <<"G", ".", "2", "0", "2", "4", "0", "2", "2", "9", ".", "0", "0", "0",
      "0", "0", "0">>

\* 'G.20250931.230000'
NameBad ==
    <<"G", ".", "2", "0", "2", "5", "0", "9", "3", "1", ".", "2", "3", "0",
      "0", "0", "0">>

FileLines ==
    { LineG1, LineG2, LineG3, LineShort, LineBadLat, LineNanShift, LineBadQc,
      LineComment, LineHeader, LineBlank }

\* the longest file
MaxLines == 2

RECURSIVE SeqsUpTo(_, _)
\* the sequences over S of length at most n
SeqsUpTo(S, n) ==
    IF n = 0 THEN { <<>> }
    ELSE LET shorter == SeqsUpTo(S, n - 1)
         IN  shorter \cup { Append(q, x) : q \in { r \in shorter : Len(r) = n - 1 }, x \in S }

Files == SeqsUpTo(FileLines, MaxLines)

FileNames == { NameAug31, NameLeap, NameBad }

QcNone == [given |-> FALSE, flags |-> {}]
QcSet(S) == [given |-> TRUE, flags |-> S]
QcKeeps == { QcNone, QcSet({}), QcSet({0}), QcSet({0, 2}), QcSet({99}) }

----------------------------------------------------------------------------
(* parse_gauge.py: parse_gauge_file_to_table1 *)

\* qc_filter with the test "if qc_keep:", which takes an empty set for None
qc_filter_truthy(df, keep) ==
    IF keep.given /\ keep.flags # {}
    THEN SelectSeq(df, LAMBDA r : r.QC_Flag \in keep.flags)
    ELSE df

\* df[df["QC_Flag"].isin(set(qc_keep))] when qc_keep is not None
qc_filter(df, keep) ==
    IF keep.given THEN SelectSeq(df, LAMBDA r : r.QC_Flag \in keep.flags)
    ELSE df

\* add_minutes with unit="h"
add_minutes_as_hours(b, tshift) == b + 60 * tshift

\* base + pd.to_timedelta(T_Shift, unit="m")
add_minutes(b, tshift) == b + tshift

\* lines 65-77: the Time column and the Table-1 schema
table1(df, b) ==
    [ k \in 1..Len(df) |->
        [ ObsID |-> df[k].G_ID, ObsValue |-> df[k].G_Value,
          Lat |-> df[k].Lat, Long |-> df[k].Lon,
          Time |-> add_minutes(b, df[k].T_Shift),
          Q3Rad |-> NA, Temp2m |-> NA, N |-> NA ] ]

ParseIdle ==
    /\ fname = <<>> /\ lines = <<>> /\ qc_keep = QcNone
    /\ base = 0 /\ li = 0 /\ recs = <<>> /\ out = <<>>

BinIdle ==
    /\ vals = <<>> /\ bins = <<>> /\ colors = <<>> /\ sizes = <<>>
    /\ inds = <<>> /\ c = <<>> /\ s = <<>>

LimitIdle ==
    /\ series = <<>> /\ vmin = Num(0) /\ vmax = [given |-> FALSE, v |-> Num(0)]
    /\ clamp_q = 99 /\ limits = <<Num(0), Num(0)>>

ParseInit ==
    /\ pc = "infer" /\ err = "none"
    /\ fname \in FileNames
    /\ lines \in Files
    /\ qc_keep \in QcKeeps
    /\ base = 0 /\ li = 0 /\ recs = <<>> /\ out = <<>>
    /\ BinIdle /\ LimitIdle

\* line 33, infer_file_time_utc raises
ParseInferRaises ==
    /\ pc = "infer"
    /\ ~ infer_file_time_utc(fname).ok
    /\ pc' = "raised"
    /\ err' = infer_file_time_utc(fname).exc
    /\ UNCHANGED <<parseVars, binVars, limitVars>>

\* line 33
ParseInferReturns ==
    /\ pc = "infer"
    /\ infer_file_time_utc(fname).ok
    /\ base' = infer_file_time_utc(fname).value
    /\ pc' = "loop"
    /\ UNCHANGED <<err, fname, lines, qc_keep, li, recs, out, binVars, limitVars>>

NextLine == strip(lines[li + 1])

\* lines 38-40: the line is not a data line
SkipNotData ==
    /\ pc = "loop" /\ li < Len(lines)
    /\ ~ line_is_data(NextLine)
    /\ li' = li + 1
    /\ UNCHANGED <<pc, err, fname, lines, qc_keep, base, recs, out, binVars, limitVars>>

\* lines 41-43: fewer than six tokens
SkipMalformed ==
    /\ pc = "loop" /\ li < Len(lines)
    /\ line_is_data(NextLine)
    /\ Len(split(NextLine)) < 6
    /\ li' = li + 1
    /\ UNCHANGED <<pc, err, fname, lines, qc_keep, base, recs, out, binVars, limitVars>>

\* SkipWeird without the except clause: the conversion error propagates
SkipWeird_propagates ==
    /\ pc = "loop" /\ li < Len(lines)
    /\ line_is_data(NextLine)
    /\ Len(split(NextLine)) >= 6
    /\ ~ MakeRecord(split(NextLine)).ok
    /\ pc' = "raised"
    /\ err' = MakeRecord(split(NextLine)).exc
    /\ UNCHANGED <<parseVars, binVars, limitVars>>

\* lines 44-55: a conversion raises, the except clause continues
SkipWeird ==
    /\ pc = "loop" /\ li < Len(lines)
    /\ line_is_data(NextLine)
    /\ Len(split(NextLine)) >= 6
    /\ ~ MakeRecord(split(NextLine)).ok
    /\ li' = li + 1
    /\ UNCHANGED <<pc, err, fname, lines, qc_keep, base, recs, out, binVars, limitVars>>

\* lines 44-53: the record is appended
AppendRecord ==
    /\ pc = "loop" /\ li < Len(lines)
    /\ line_is_data(NextLine)
    /\ Len(split(NextLine)) >= 6
    /\ MakeRecord(split(NextLine)).ok
    /\ recs' = Append(recs, MakeRecord(split(NextLine)).value)
    /\ li' = li + 1
    /\ UNCHANGED <<pc, err, fname, lines, qc_keep, base, out, binVars, limitVars>>

\* lines 57-58
RaiseNoRows ==
    /\ pc = "loop" /\ li = Len(lines)
    /\ recs = <<>>
    /\ pc' = "raised"
    /\ err' = "ValueError"
    /\ UNCHANGED <<parseVars, binVars, limitVars>>

\* lines 57-79
ReturnTable ==
    /\ pc = "loop" /\ li = Len(lines)
    /\ recs # <<>>
    /\ out' = table1(qc_filter(recs, qc_keep), base)
    /\ pc' = "returned"
    /\ UNCHANGED <<err, fname, lines, qc_keep, base, li, recs, binVars, limitVars>>

ParseNext ==
    \/ ParseInferRaises
    \/ ParseInferReturns
    \/ SkipNotData
    \/ SkipMalformed
    \/ SkipWeird
    \/ AppendRecord
    \/ RaiseNoRows
    \/ ReturnTable

ParseSpec == ParseInit /\ [][ParseNext]_vars

----------------------------------------------------------------------------
(* A call of infer_file_time_utc on its own *)

NameDirs == { <<>>, <<"d", "/">> }
NameStems == { <<>>, <<"G">> }
NameSeps == { ".", "_" }
NameYears == { <<"2", "0", "2", "5">>, <<"2", "0", "2", "4">>,
               <<"0", "0", "0", "0">>, <<"2", "0", "x", "5">> }
NameMonths == { <<"0", "0">>, <<"0", "2">>, <<"0", "8">>, <<"1", "2">>,
                <<"1", "3">> }
NameDays == { <<"0", "0">>, <<"2", "8">>, <<"2", "9">>, <<"3", "0">>,
              <<"3", "1">>, <<"3", "2">> }
NameHours == { <<"0", "0">>, <<"2", "3">>, <<"2", "4">>, <<"2", "x">> }
NameTails == { <<"0", "0", "0", "0">>, <<"0", "0", "0">>,
               <<"0", "0", "0", "0", "\n">>, <<"0", "0", "0", "0", "/">>,
               <<"0", "0", "0", "0", "x">>, <<"0", "0", "0", "1">> }

TimeNames ==
    { dir \o stem \o <<s1>> \o y \o mo \o d \o <<s2>> \o h \o tl :
        dir \in NameDirs, stem \in NameStems, s1 \in NameSeps,
        y \in NameYears, mo \in NameMonths, d \in NameDays,
        s2 \in NameSeps, h \in NameHours, tl \in NameTails }

TimeInit ==
    /\ pc = "infer" /\ err = "none"
    /\ fname \in TimeNames
    /\ lines = <<>> /\ qc_keep = QcNone
    /\ base = 0 /\ li = 0 /\ recs = <<>> /\ out = <<>>
    /\ BinIdle /\ LimitIdle

\* lines 13-15: no match
InferNoMatch ==
    /\ pc = "infer"
    /\ re_search(PathName(fname)) = <<>>
    /\ pc' = "raised"
    /\ err' = infer_file_time_utc(fname).exc
    /\ UNCHANGED <<parseVars, binVars, limitVars>>

\* line 17: pd.Timestamp rejects the fields
InferBadFields ==
    /\ pc = "infer"
    /\ re_search(PathName(fname)) # <<>>
    /\ ~ infer_file_time_utc(fname).ok
    /\ pc' = "raised"
    /\ err' = infer_file_time_utc(fname).exc
    /\ UNCHANGED <<parseVars, binVars, limitVars>>

\* line 17: the Timestamp is returned (kept in base)
InferReturns ==
    /\ pc = "infer"
    /\ infer_file_time_utc(fname).ok
    /\ base' = infer_file_time_utc(fname).value
    /\ pc' = "returned"
    /\ UNCHANGED <<err, fname, lines, qc_keep, li, recs, out, binVars, limitVars>>

TimeNext == InferNoMatch \/ InferBadFields \/ InferReturns

TimeSpec == TimeInit /\ [][TimeNext]_vars

----------------------------------------------------------------------------
(* plot_gauge.py: get_nws_bins_and_colors and assign_bins *)

\* get_nws_bins_and_colors with a color and a size for an overflow bin
get_nws_bins_and_colors_overflow ==
    [ bins |-> << Num(10), Num(50), Num(100), Num(200), Num(400), Num(600),
                  Num(800), Num(1000), Num(1250), Num(1500), Num(1750),
                  Num(2000), Num(2500), Num(3000), Num(3500), Num(4000),
                  Num(5000) >>,
      colors |-> << "#b3ecff", "#66d9ff", "#1fa3ff", "#0090ff",
                    "#00e600", "#00b300", "#33cc33", "#99e600",
                    "#ffff00", "#ffd700", "#ffb300", "#ff9900",
                    "#ff6600", "#ff0000", "#e60073", "#cc00cc",
                    "#8000ff", "#b266ff" >>,
      sizes |-> << 18, 18, 22, 22, 30, 34, 38, 42, 60, 70, 80, 90,
                   110, 130, 150, 170, 200, 230 >> ]

\* the thresholds in thousandths of an inch
get_nws_bins_and_colors ==
    [ bins |-> << Num(10), Num(50), Num(100), Num(200), Num(400), Num(600),
                  Num(800), Num(1000), Num(1250), Num(1500), Num(1750),
                  Num(2000), Num(2500), Num(3000), Num(3500), Num(4000),
                  Num(5000) >>,
      colors |-> << "#b3ecff", "#66d9ff", "#1fa3ff", "#0090ff",
                    "#00e600", "#00b300", "#33cc33", "#99e600",
                    "#ffff00", "#ffd700", "#ffb300", "#ff9900",
                    "#ff6600", "#ff0000", "#e60073", "#cc00cc",
                    "#8000ff" >>,
      sizes |-> << 18, 18, 22, 22, 30, 34, 38, 42, 60, 70, 80, 90,
                   110, 130, 150, 170, 200 >> ]

\* the order numpy sorts and searches floats by: NaN after every number
npy_lt(a, b) == Lt(a, b) \/ (b.k = "nan" /\ a.k # "nan")

RECURSIVE searchsorted_left(_, _, _, _)
\* np.searchsorted(a, x, side='left'): binary search in a[lo..hi-1] (0-based)
\* for the first position whose entry is not below x
searchsorted_left(a, x, lo, hi) ==
    IF lo >= hi THEN lo
    ELSE LET mid == (lo + hi) \div 2
         IN  IF npy_lt(a[mid + 1], x)
             THEN searchsorted_left(a, x, mid + 1, hi)
             ELSE searchsorted_left(a, x, lo, mid)

RECURSIVE searchsorted_right(_, _, _, _)
\* side='right': the first position whose entry is above x
searchsorted_right(a, x, lo, hi) ==
    IF lo >= hi THEN lo
    ELSE LET mid == (lo + hi) \div 2
         IN  IF ~ npy_lt(x, a[mid + 1])
             THEN searchsorted_right(a, x, mid + 1, hi)
             ELSE searchsorted_right(a, x, lo, mid)

\* digitize with right=False
digitize_left_inclusive(x, a) == searchsorted_right(a, x, 0, Len(a))

\* np.digitize(x, a, right=True) for increasing a
digitize(x, a) == searchsorted_left(a, x, 0, Len(a))

\* clip with the upper limit one too low
clip_short(x, lo, hi) ==
    IF x < lo THEN lo ELSE IF x > hi - 1 THEN hi - 1 ELSE x

\* np.clip on an integer
clip(x, lo, hi) == IF x < lo THEN lo ELSE IF x > hi THEN hi ELSE x

\* assign_bins clipping to len(colors) instead of len(colors) - 1
assign_bins_clip_len(v, b, col, siz) ==
    LET ix == [k \in 1..Len(v) |-> clip(digitize(v[k], b), 0, Len(col))]
    IN  IF \E k \in 1..Len(v) : ix[k] >= Len(col) \/ ix[k] >= Len(siz)
        THEN Raise("IndexError")
        ELSE Ok([c |-> [k \in 1..Len(v) |-> col[ix[k] + 1]],
                 s |-> [k \in 1..Len(v) |-> siz[ix[k] + 1]],
                 inds |-> ix])

\* lines 70-72; indexing an array past its end raises IndexError
assign_bins(v, b, col, siz) ==
    LET ix == [k \in 1..Len(v) |-> clip(digitize(v[k], b), 0, Len(col) - 1)]
    IN  IF \E k \in 1..Len(v) : ix[k] >= Len(col) \/ ix[k] >= Len(siz)
        THEN Raise("IndexError")
        ELSE Ok([c |-> [k \in 1..Len(v) |-> col[ix[k] + 1]],
                 s |-> [k \in 1..Len(v) |-> siz[ix[k] + 1]],
                 inds |-> ix])

\* the longest array of values
MaxVals == 2

\* inches in thousandths: each threshold, the neighbours of some, values
\* below zero and above the top threshold, and NaN
BinValues ==
    { Num(n) : n \in { 10, 50, 100, 200, 400, 600, 800, 1000, 1250, 1500,
                       1750, 2000, 2500, 3000, 3500, 4000, 5000 } }
      \cup { Num(n) : n \in { -2500, -1, 0, 5, 9, 11, 49, 51, 3999, 4001, 4999,
                              5001, 12000 } }
      \cup { NaN }

BinInit ==
    /\ pc = "start" /\ err = "none"
    /\ vals \in SeqsUpTo(BinValues, MaxVals)
    /\ bins = <<>> /\ colors = <<>> /\ sizes = <<>>
    /\ inds = <<>> /\ c = <<>> /\ s = <<>>
    /\ ParseIdle /\ LimitIdle

\* plot_cartopy line 106
GetBins ==
    /\ pc = "start"
    /\ bins' = get_nws_bins_and_colors.bins
    /\ colors' = get_nws_bins_and_colors.colors
    /\ sizes' = get_nws_bins_and_colors.sizes
    /\ pc' = "call"
    /\ UNCHANGED <<err, vals, inds, c, s, parseVars, limitVars>>

\* plot_cartopy line 107: the call returns, or its exception propagates
AssignBins ==
    /\ pc = "call"
    /\ LET r == assign_bins(vals, bins, colors, sizes)
       IN  IF r.ok
           THEN /\ inds' = r.value.inds /\ c' = r.value.c /\ s' = r.value.s
                /\ pc' = "returned" /\ err' = err
           ELSE /\ pc' = "raised" /\ err' = r.exc
                /\ UNCHANGED <<inds, c, s>>
    /\ UNCHANGED <<vals, bins, colors, sizes, parseVars, limitVars>>

BinNext == GetBins \/ AssignBins

BinSpec == BinInit /\ [][BinNext]_vars

----------------------------------------------------------------------------
(* plot_gauge.py: choose_color_limits *)

RECURSIVE Insert(_, _)
\* the sorted sequence q with the number x inserted
Insert(q, x) ==
    IF q = <<>> THEN <<x>>
    ELSE IF x.v <= Head(q).v THEN <<x>> \o q
    ELSE <<Head(q)>> \o Insert(Tail(q), x)

RECURSIVE Sorted(_)
Sorted(q) == IF q = <<>> THEN <<>> ELSE Insert(Sorted(Tail(q)), Head(q))

\* Series.quantile(q) with q in percent: the NaN entries are dropped, the
\* rest sorted and interpolated linearly at position q * (n - 1); NaN when
\* nothing is left.  The entries are whole numbers (multiples of 100
\* hundredths), so the result is exact in hundredths.
quantile(ser, q) ==
    LET present == Sorted(SelectSeq(ser, LAMBDA x : x.k = "num"))
        n == Len(present)
        pos == q * (n - 1)
        lo == pos \div 100
        frac == pos % 100
    IN  IF n = 0 THEN NaN
        ELSE IF frac = 0 THEN present[lo + 1]
        ELSE Num(present[lo + 1].v
                   + (frac * (present[lo + 2].v - present[lo + 1].v)) \div 100)

\* lines 16-21
choose_color_limits(ser, lo, hi, q) ==
    IF ~ hi.given
    THEN LET v == IF Len(ser) > 0 THEN quantile(ser, q) ELSE Num(100)
         IN  IF Le(v, lo) THEN <<lo, Num(lo.v + 100)>> ELSE <<lo, v>>
    ELSE <<lo, hi.v>>

\* the longest series
MaxSeries == 4

SeriesValues == { Num(0), Num(500), Num(-300), NaN }

LimitInit ==
    /\ pc = "call" /\ err = "none"
    /\ series \in SeqsUpTo(SeriesValues, MaxSeries)
    /\ vmin \in { Num(0), Num(100), Num(-400) }
    /\ vmax \in { [given |-> FALSE, v |-> Num(0)], [given |-> TRUE, v |-> Num(0)],
                  [given |-> TRUE, v |-> Num(300)] }
    /\ clamp_q \in { 99, 50 }
    /\ limits = <<Num(0), Num(0)>>
    /\ ParseIdle /\ BinIdle

ChooseColorLimits ==
    /\ pc = "call"
    /\ limits' = choose_color_limits(series, vmin, vmax, clamp_q)
    /\ pc' = "returned"
    /\ UNCHANGED <<err, series, vmin, vmax, clamp_q, parseVars, binVars>>

LimitNext == ChooseColorLimits

LimitSpec == LimitInit /\ [][LimitNext]_vars

----------------------------------------------------------------------------
(* Properties of parse_gauge_file_to_table1 *)

RECURSIVE DataRecords(_)
\* the records of the well-formed data lines of ls, in file order
DataRecords(ls) ==
    IF ls = <<>> THEN <<>>
    ELSE LET t == strip(Head(ls))
             parts == split(t)
             wellFormed == /\ line_is_data(t)
                           /\ Len(parts) >= 6
                           /\ MakeRecord(parts).ok
         IN  (IF wellFormed THEN <<MakeRecord(parts).value>> ELSE <<>>)
               \o DataRecords(Tail(ls))

\* the records a QC allow-set keeps: all of them when none is given
Survivors(ls, keep) ==
    SelectSeq(DataRecords(ls), LAMBDA r : (~ keep.given) \/ r.QC_Flag \in keep.flags)

\* C1: whenever zero rows survive every filter (header and comment skipping,
\* malformed-row dropping and the QC allow-set), the call raises ValueError
\* and returns no table.
C1_EmptyResultRaises ==
    (pc \in {"returned", "raised"} /\ infer_file_time_utc(fname).ok
       /\ Survivors(lines, qc_keep) = <<>>)
    => (pc = "raised" /\ err = "ValueError")

\* civil time as <<year, month, day, hour, minute>>
NextDay(t) ==
    IF t[3] < DaysInMonth(t[1], t[2]) THEN <<t[1], t[2], t[3] + 1, t[4], t[5]>>
    ELSE IF t[2] < 12 THEN <<t[1], t[2] + 1, 1, t[4], t[5]>>
    ELSE <<t[1] + 1, 1, 1, t[4], t[5]>>

PrevDay(t) ==
    IF t[3] > 1 THEN <<t[1], t[2], t[3] - 1, t[4], t[5]>>
    ELSE IF t[2] > 1
         THEN <<t[1], t[2] - 1, DaysInMonth(t[1], t[2] - 1), t[4], t[5]>>
    ELSE <<t[1] - 1, 12, 31, t[4], t[5]>>

RECURSIVE AddDays(_, _)
AddDays(t, n) ==
    IF n = 0 THEN t
    ELSE IF n > 0 THEN AddDays(NextDay(t), n - 1)
    ELSE AddDays(PrevDay(t), n + 1)

\* the civil time k minutes after t (before, for negative k): the minutes
\* carry into the hours, the hours into the days, the days into the calendar
CivilAdd(t, k) ==
    LET mins == t[5] + k
        hours == t[4] + (mins \div 60)
    IN  AddDays(<<t[1], t[2], t[3], hours % 24, mins % 60>>, hours \div 24)

Instant(t) == Timestamp(t[1], t[2], t[3], t[4], t[5]).value

\* the civil time the file name encodes: .YYYYMMDD.HH0000
NameCivil(f) ==
    LET m == re_search(PathName(f))
    IN  <<int_str(SubSeq(m, 2, 5)), int_str(SubSeq(m, 6, 7)),
          int_str(SubSeq(m, 8, 9)), int_str(SubSeq(m, 11, 12)), 0>>

\* C2: every row's Time is the base time of the file name plus that row's
\* T_Shift minutes as a duration (negative shifts and shifts across an hour,
\* day or month boundary included), with one base time for all rows.
C2_TimeIsBasePlusShift ==
    pc = "returned" =>
        \A k \in 1..Len(out) :
            /\ k <= Len(Survivors(lines, qc_keep))
            /\ out[k].Time =
                 Instant(CivilAdd(NameCivil(fname), Survivors(lines, qc_keep)[k].T_Shift))

\* a table of base 2025-08-31 23:00 with a row shifted by +90 minutes to
\* 2025-09-01 00:30 and a row shifted by -45 minutes to 22:15
C2_Witness ==
    /\ pc = "returned"
    /\ NameCivil(fname) = <<2025, 8, 31, 23, 0>>
    /\ Len(out) = 2
    /\ Survivors(lines, qc_keep)[1].T_Shift = 90
    /\ out[1].Time = Instant(<<2025, 9, 1, 0, 30>>)
    /\ Survivors(lines, qc_keep)[2].T_Shift = -45
    /\ out[2].Time = Instant(<<2025, 8, 31, 22, 15>>)

\* C5: the rows returned are exactly the well-formed data records, in file
\* order, restricted by qc_keep: None keeps every record, a set keeps the
\* records whose QC flag is a member, and the empty set keeps none.
C5_RowsAreKeptRecords ==
    pc = "returned" =>
        LET kept == Survivors(lines, qc_keep)
        IN  /\ Len(out) = Len(kept)
            /\ \A k \in 1..Len(out) :
                 /\ out[k].ObsID = kept[k].G_ID
                 /\ out[k].ObsValue = kept[k].G_Value
                 /\ out[k].Lat = kept[k].Lat
                 /\ out[k].Long = kept[k].Lon
            /\ (qc_keep = QcSet({}) => out = <<>>)
            /\ (qc_keep = QcNone => Len(out) = Len(recs))

\* a returned table from which the empty allow-set removed every record
C5_Witness ==
    /\ pc = "returned"
    /\ qc_keep = QcSet({})
    /\ Len(recs) = 2
    /\ out = <<>>

\* a data line that yields no record: too few tokens, or a token among the
\* second to sixth that does not convert
Defective(t) ==
    LET parts == split(t)
    IN  \/ Len(parts) < 6
        \/ ~ float(parts[2]).ok
        \/ ~ float(parts[3]).ok
        \/ ~ int_of_float(parts[4]).ok
        \/ ~ float(parts[5]).ok
        \/ ~ int_of_float(parts[6]).ok

\* C6: a data line with fewer than six tokens, or with a latitude,
\* longitude, time-shift, value or QC token that does not convert, raises
\* nothing, adds no record and leaves recs as it was, and the loop goes on to
\* the next line; a line whose first six tokens convert is recorded from
\* those six alone.
C6_DefectiveLineIsSkipped ==
    [][ (pc = "loop" /\ li < Len(lines) /\ line_is_data(NextLine)) =>
          IF Defective(NextLine)
          THEN recs' = recs /\ err' = "none" /\ pc' = "loop" /\ li' = li + 1
          ELSE /\ recs' = Append(recs, MakeRecord(SubSeq(split(NextLine), 1, 6)).value)
               /\ err' = "none" /\ pc' = "loop" /\ li' = li + 1 ]_vars

\* a defective line was passed over and the line after it was recorded
C6_Witness ==
    /\ pc = "loop" /\ li = 2
    /\ line_is_data(strip(lines[1])) /\ Defective(strip(lines[1]))
    /\ Len(split(strip(lines[2]))) > 6
    /\ Len(recs) = 1

----------------------------------------------------------------------------
(* Properties of infer_file_time_utc *)

\* the name ends with "." + 8 digits + "." + 2 digits + "0000"
EndsWithStamp(name) ==
    /\ Len(name) >= 16
    /\ LET t == SubSeq(name, Len(name) - 15, Len(name))
       IN  /\ t[1] = "." /\ t[10] = "."
           /\ \A j \in (2..9) \cup (11..12) : t[j] \in Digits
           /\ \A j \in 13..16 : t[j] = "0"

\* the digits of a name that ends with the stamp form a calendar date and hour
StampIsValid(name) ==
    LET t == SubSeq(name, Len(name) - 15, Len(name))
        y == int_str(SubSeq(t, 2, 5))
        m == int_str(SubSeq(t, 6, 7))
        d == int_str(SubSeq(t, 8, 9))
        h == int_str(SubSeq(t, 11, 12))
    IN  /\ y >= 1
        /\ m \in 1..12
        /\ d \in 1..DaysInMonth(y, m)
        /\ h \in 0..23

\* C8: a timestamp is returned if and only if the file name ends with
\* "." + 8 digits + "." + 2 digits + "0000" and the digits form a valid date
\* and hour; the result is that instant, minute and second zero; every
\* other name raises ValueError.
C8_ReturnsIffStampAndValid ==
    pc # "infer" =>
        LET name == PathName(fname)
            good == EndsWithStamp(name) /\ StampIsValid(name)
        IN  /\ (pc = "returned") <=> good
            /\ (pc = "returned" =>
                  base = Instant(<<int_str(SubSeq(name, Len(name) - 14, Len(name) - 11)),
                                   int_str(SubSeq(name, Len(name) - 10, Len(name) - 9)),
                                   int_str(SubSeq(name, Len(name) - 8, Len(name) - 7)),
                                   int_str(SubSeq(name, Len(name) - 5, Len(name) - 4)),
                                   0>>))
            /\ (pc = "raised" => err = "ValueError")

----------------------------------------------------------------------------
(* Properties of get_nws_bins_and_colors and assign_bins *)

\* the number of thresholds
NBins == Len(bins)

\* the smallest 0-based i with v <= bins[i]
SmallestBin(v) ==
    CHOOSE i \in 0..(NBins - 1) :
        /\ Le(v, bins[i + 1])
        /\ \A j \in 0..(i - 1) : ~ Le(v, bins[j + 1])

\* C3: a value that does not exceed the highest threshold gets the smallest
\* index i with v <= bins[i]: a value equal to bins[i] gets i, not i + 1,
\* and a value with 0 < v <= bins[0] gets 0.
C3_SmallestThresholdIndex ==
    pc \in {"returned", "raised"} =>
        /\ pc = "returned"
        /\ \A k \in 1..Len(vals) :
             Le(vals[k], bins[NBins]) => inds[k] = SmallestBin(vals[k])

\* 0.005 in bin 0 beside 0.10, the third threshold, in bin 2
C3_Witness ==
    /\ pc = "returned"
    /\ vals = <<Num(5), Num(100)>>
    /\ bins[3] = Num(100)
    /\ inds = <<0, 2>>

StrictlyIncreasing(q) == \A k \in 1..(Len(q) - 1) : Lt(q[k], q[k + 1])

C10_IndexInRange ==
    pc \in {"returned", "raised"} =>
        /\ pc = "returned" /\ err = "none"
        /\ Len(inds) = Len(vals) /\ Len(c) = Len(vals) /\ Len(s) = Len(vals)
        /\ \A k \in 1..Len(vals) :
             /\ inds[k] \in 0..NBins
             /\ inds[k] + 1 \in 1..Len(colors) /\ c[k] = colors[inds[k] + 1]
             /\ inds[k] + 1 \in 1..Len(sizes) /\ s[k] = sizes[inds[k] + 1]
             /\ (Lt(vals[k], Num(0)) => inds[k] = 0)

\* NaN beside a negative value
C10_Witness ==
    /\ pc = "returned"
    /\ vals = <<NaN, Num(-2500)>>
    /\ inds[2] = 0
    /\ inds[1] = NBins - 1

----------------------------------------------------------------------------
(* Properties of choose_color_limits *)

\* C7: with no explicit maximum the pair returned has vmax > vmin for every
\* series (empty, all zeros, all entries absent), and vmax is floor + 1 when
\* the quantile of the present values does not exceed the floor.
C7_RangeNotDegenerate ==
    (pc = "returned" /\ ~ vmax.given) =>
        /\ limits[1] = vmin
        /\ Lt(limits[1], limits[2])
        /\ (\E k \in 1..Len(series) : series[k].k = "num")
             => (Le(quantile(series, clamp_q), vmin)
                   => limits[2] = Num(vmin.v + 100))

====
